---------------------------- MODULE Spec2Model ----------------------------
(***************************************************************************)
(* A model of data_parser.py: the date/week converter, the lesson time     *)
(* calculator, the event id generator, the schedule formatter and the      *)
(* orchestrator parse_raw_schedule_json.                                   *)
(*                                                                         *)
(* The module is a library of functions without shared state.  A state of  *)
(* the model is one invocation: `call` is the function invoked with its    *)
(* arguments, `ret` its outcome ("pending" before it ran, then "ok" with   *)
(* the value returned, or the name of the exception raised) and `fetchLog` *)
(* the calls made to the fetch collaborator get_raw_schedule_json, each    *)
(* with the payload it answered.                                           *)
(***************************************************************************)
EXTENDS Integers, Sequences, FiniteSets, TLC

VARIABLES call, ret, fetchLog

vars == <<call, ret, fetchLog>>

-----------------------------------------------------------------------------
(* Bounds of the model.                                                    *)

\* target dates range over epoch - DaysBefore .. epoch + DaysAfter
DaysBefore == 9
DaysAfter == 23
\* week arguments range over -1 .. MaxWeek
MaxWeek == 4
\* lesson ordinals range over -1 .. MaxLessonNumber
MaxLessonNumber == 11
\* a fetched payload holds at most MaxEntries entries
MaxEntries == 2
\* a day of a grouped schedule holds at most MaxLessons lessons
MaxLessons == 2

-----------------------------------------------------------------------------
(* Python values and outcomes.                                             *)

None == [t |-> "none"]
PyInt(i) == [t |-> "int", v |-> i]
PyStr(s) == [t |-> "str", v |-> s]
PyList(s) == [t |-> "list", v |-> s]

\* bool(v): None, 0, "" (a string is a TLA+ string or a sequence of
\* characters) and [] are false
Truthy(x) ==
  CASE x.t = "none" -> FALSE
    [] x.t = "int" -> x.v /= 0
    [] x.t = "str" -> Len(x.v) /= 0
    [] x.t = "list" -> Len(x.v) /= 0

\* a or b
Or(a, b) == IF Truthy(a) THEN a ELSE b

\* d.get(k): a dict is a function on the keys it holds
Get(d, k) == IF k \in DOMAIN d THEN d[k] ELSE None

Ok(v) == [status |-> "ok", value |-> v]
Raise(e) == [status |-> e]
Pending == [status |-> "pending"]

Max(a, b) == IF a >= b THEN a ELSE b

\* divmod(a, b) for b > 0: Python floors, as \div and % do
DivMod(a, b) == <<a \div b, a % b>>

DigitChar == <<"0", "1", "2", "3", "4", "5", "6", "7", "8", "9">>

RECURSIVE NatToStr(_)
NatToStr(n) ==
  IF n < 10 THEN DigitChar[n + 1]
  ELSE NatToStr(n \div 10) \o DigitChar[(n % 10) + 1]

\* str(n) of an int, as an f-string field renders it
IntToStr(n) == IF n < 0 THEN "-" \o NatToStr(-n) ELSE NatToStr(n)

\* str(v) of a value in an f-string field
ToStr(x) ==
  CASE x.t = "none" -> "None"
    [] x.t = "int" -> IntToStr(x.v)
    [] x.t = "str" -> x.v

\* f"{n:02d}": zero-padded to width 2, the sign counted in the width
Format02d(n) ==
  LET s == IntToStr(n) IN IF Len(s) < 2 THEN "0" \o s ELSE s

-----------------------------------------------------------------------------
(* datetime.date: the proleptic Gregorian calendar.                        *)

Date(y, m, d) == [year |-> y, month |-> m, day |-> d]

IsLeap(y) == y % 4 = 0 /\ (y % 100 /= 0 \/ y % 400 = 0)

DaysInMonth(y, m) ==
  IF m = 2 THEN (IF IsLeap(y) THEN 29 ELSE 28)
  ELSE IF m \in {4, 6, 9, 11} THEN 30 ELSE 31

DaysBeforeYear(y) ==
  (y - 1) * 365 + ((y - 1) \div 4) - ((y - 1) \div 100) + ((y - 1) \div 400)

RECURSIVE DaysBeforeMonth(_, _)
DaysBeforeMonth(y, m) ==
  IF m = 1 THEN 0 ELSE DaysBeforeMonth(y, m - 1) + DaysInMonth(y, m - 1)

\* date.toordinal(): 1 for 0001-01-01
ToOrdinal(d) == DaysBeforeYear(d.year) + DaysBeforeMonth(d.year, d.month) + d.day

\* date(y, m, d) is constructible
ValidDate(y, m, d) ==
  /\ y \in 1..9999
  /\ m \in 1..12
  /\ d \in 1..DaysInMonth(y, m)

\* date.fromordinal(n)
FromOrdinal(n) ==
  LET n0 == n - 1
      n400 == n0 \div 146097
      r400 == n0 % 146097
      n100 == r400 \div 36524
      r100 == r400 % 36524
      n4 == r100 \div 1461
      r4 == r100 % 1461
      n1 == r4 \div 365
      r1 == r4 % 365
      y == n400 * 400 + n100 * 100 + n4 * 4 + n1 + 1
  IN IF n1 = 4 \/ n100 = 4 THEN Date(y - 1, 12, 31)
     ELSE LET m == CHOOSE k \in 1..12 :
                     /\ DaysBeforeMonth(y, k) <= r1
                     /\ r1 < DaysBeforeMonth(y, k) + DaysInMonth(y, k)
          IN Date(y, m, r1 - DaysBeforeMonth(y, m) + 1)

\* (a - b).days
DateSubDays(a, b) == ToOrdinal(a) - ToOrdinal(b)

\* d + timedelta(days=n): OverflowError outside 0001-01-01 .. 9999-12-31
DateAddDays(d, n) ==
  LET o == ToOrdinal(d) + n
  IN IF o >= 1 /\ o <= ToOrdinal(Date(9999, 12, 31))
     THEN Ok(FromOrdinal(o)) ELSE Raise("OverflowError")

WEEK_ZERO_START == Date(2025, 9, 1)

-----------------------------------------------------------------------------
(* Date/Week converter.                                                    *)

\* variant: the week index returned without the clamp to 1
calc_university_week_from_date_noclamp(target_date) ==
  (DateSubDays(target_date, WEEK_ZERO_START) \div 7) + 1

calc_university_week_from_date(target_date) ==
  LET delta_days == DateSubDays(target_date, WEEK_ZERO_START)
      week_index == (delta_days \div 7) + 1
  IN Max(1, week_index)

\* variant: the day code counted from 0
calc_date_from_week_and_day_monday0(week, day_number) ==
  DateAddDays(WEEK_ZERO_START, (week - 1) * 7 + day_number)

calc_date_from_week_and_day(week, day_number) ==
  LET days_from_start == (week - 1) * 7 + (day_number - 1)
  IN DateAddDays(WEEK_ZERO_START, days_from_start)

\* the characters of a decimal digit string
IsDigit(c) == c \in {"0", "1", "2", "3", "4", "5", "6", "7", "8", "9"}
IsNonZeroDigit(c) == c \in {"1", "2", "3", "4", "5", "6", "7", "8", "9"}
DigitVal(c) == CHOOSE i \in 0..9 : DigitChar[i + 1] = c

\* int(field) of a matched field: digits, after an optional leading blank
RECURSIVE FieldInt(_)
FieldInt(f) ==
  IF f = <<>> THEN 0
  ELSE IF f[Len(f)] = " " THEN 0
  ELSE FieldInt(SubSeq(f, 1, Len(f) - 1)) * 10 + DigitVal(f[Len(f)])

\* strptime's regular expressions of the directives of "%d.%m.%Y":
\*   %d  3[0-1]|[1-2]\d|0[1-9]|[1-9]| [1-9]
\*   %m  1[0-2]|0[1-9]|[1-9]
\*   %Y  \d\d\d\d
RE_d(f) ==
  \/ Len(f) = 2 /\ f[1] = "3" /\ f[2] \in {"0", "1"}
  \/ Len(f) = 2 /\ f[1] \in {"1", "2"} /\ IsDigit(f[2])
  \/ Len(f) = 2 /\ f[1] = "0" /\ IsNonZeroDigit(f[2])
  \/ Len(f) = 1 /\ IsNonZeroDigit(f[1])
  \/ Len(f) = 2 /\ f[1] = " " /\ IsNonZeroDigit(f[2])

RE_m(f) ==
  \/ Len(f) = 2 /\ f[1] = "1" /\ f[2] \in {"0", "1", "2"}
  \/ Len(f) = 2 /\ f[1] = "0" /\ IsNonZeroDigit(f[2])
  \/ Len(f) = 1 /\ IsNonZeroDigit(f[1])

RE_Y(f) == Len(f) = 4 /\ \A i \in 1..4 : IsDigit(f[i])

\* the matches of the compiled format at the start of s: <<i, j>> when
\* s[1..i] is the day, s[i+1] a dot, s[i+2..j] the month, s[j+1] a dot and
\* s[j+2..j+5] the year.  The dots fix the fields, so there is at most one.
FormatMatches(s) ==
  { ij \in (1..2) \X (3..5) :
      /\ Len(s) >= ij[2] + 5
      /\ ij[2] >= ij[1] + 2
      /\ RE_d(SubSeq(s, 1, ij[1]))
      /\ s[ij[1] + 1] = "."
      /\ RE_m(SubSeq(s, ij[1] + 2, ij[2]))
      /\ s[ij[2] + 1] = "."
      /\ RE_Y(SubSeq(s, ij[2] + 2, ij[2] + 5)) }

\* variant: a match of the start of the string accepted, whatever follows it
_parse_date_str_prefix(date_str) ==
  LET found == FormatMatches(date_str)
  IN IF found = {} THEN Raise("ValueError")
     ELSE LET ij == CHOOSE m \in found : TRUE
              day == FieldInt(SubSeq(date_str, 1, ij[1]))
              month == FieldInt(SubSeq(date_str, ij[1] + 2, ij[2]))
              year == FieldInt(SubSeq(date_str, ij[2] + 2, ij[2] + 5))
          IN IF ~ValidDate(year, month, day) THEN Raise("ValueError")
             ELSE Ok(Date(year, month, day))

\* datetime.strptime(date_str, "%d.%m.%Y").date()
_parse_date_str(date_str) ==
  LET found == FormatMatches(date_str)
  IN IF found = {} THEN Raise("ValueError")
     ELSE LET ij == CHOOSE m \in found : TRUE
              day == FieldInt(SubSeq(date_str, 1, ij[1]))
              month == FieldInt(SubSeq(date_str, ij[1] + 2, ij[2]))
              year == FieldInt(SubSeq(date_str, ij[2] + 2, ij[2] + 5))
          IN IF Len(date_str) /= ij[2] + 5 THEN Raise("ValueError")
             ELSE IF ~ValidDate(year, month, day) THEN Raise("ValueError")
             ELSE Ok(Date(year, month, day))

-----------------------------------------------------------------------------
(* Weekday names.                                                          *)

_weekday_name(day_number) ==
  LET mapping == <<"Monday", "Tuesday", "Wednesday", "Thursday", "Friday",
                   "Saturday", "Sunday">>
  IN IF day_number \in DOMAIN mapping THEN mapping[day_number]
     ELSE "Day " \o IntToStr(day_number)

-----------------------------------------------------------------------------
(* Lesson time calculator.                                                 *)

_lesson_time_range(lesson_number) ==
  LET start_minutes_total == 8 * 60
      step == 105
      lesson_start == start_minutes_total + (lesson_number - 1) * step
      lesson_end == lesson_start + 90
      s == DivMod(lesson_start, 60)
      e == DivMod(lesson_end, 60)
  IN Format02d(s[1]) \o ":" \o Format02d(s[2]) \o " - "
       \o Format02d(e[1]) \o ":" \o Format02d(e[2])

\* datetime.min.time().replace(hour=h, minute=m)
TimeReplace(h, m) ==
  IF h \in 0..23 /\ m \in 0..59 THEN Ok([hour |-> h, minute |-> m])
  ELSE Raise("ValueError")

\* datetime.combine(date, time)
Combine(d, t) ==
  [year |-> d.year, month |-> d.month, day |-> d.day,
   hour |-> t.hour, minute |-> t.minute]

\* variant: lessons stepped by their duration, without the break
calc_lesson_datetime_step90(week, day_number, lesson_number) ==
  LET lesson_date == calc_date_from_week_and_day(week, day_number)
      start_minutes_total == 8 * 60 + (lesson_number - 1) * 90
      s == DivMod(start_minutes_total, 60)
      e == DivMod(start_minutes_total + 90, 60)
      start_time == TimeReplace(s[1], s[2])
      end_time == TimeReplace(e[1], e[2])
  IN IF lesson_date.status /= "ok" THEN lesson_date
     ELSE IF start_time.status /= "ok" THEN start_time
     ELSE IF end_time.status /= "ok" THEN end_time
     ELSE Ok(<<Combine(lesson_date.value, start_time.value),
               Combine(lesson_date.value, end_time.value)>>)

calc_lesson_datetime(week, day_number, lesson_number) ==
  LET lesson_date == calc_date_from_week_and_day(week, day_number)
      start_minutes_total == 8 * 60 + (lesson_number - 1) * 105
      s == DivMod(start_minutes_total, 60)
      end_minutes_total == start_minutes_total + 90
      e == DivMod(end_minutes_total, 60)
      start_time == TimeReplace(s[1], s[2])
      end_time == TimeReplace(e[1], e[2])
  IN IF lesson_date.status /= "ok" THEN lesson_date
     ELSE IF start_time.status /= "ok" THEN start_time
     ELSE IF end_time.status /= "ok" THEN end_time
     ELSE Ok(<<Combine(lesson_date.value, start_time.value),
               Combine(lesson_date.value, end_time.value)>>)

-----------------------------------------------------------------------------
(* Event id generator.                                                     *)

\* hashlib.sha256(s.encode("utf-8")).hexdigest()[:32], kept abstract: the
\* digest of s, equal for two strings exactly when the strings are equal
Sha256Hex32(s) == [sha256_hex32_of |-> s]

generate_event_id(group_name, week, day_number, lesson_number, cours_name, cours_type) ==
  LET unique_string ==
        group_name \o ":" \o IntToStr(week) \o ":" \o IntToStr(day_number)
          \o ":" \o IntToStr(lesson_number) \o ":" \o cours_name
          \o ":" \o cours_type
  IN Sha256Hex32(unique_string)

-----------------------------------------------------------------------------
(* Schedule formatter.  A text is the sequence of the fragments it is put  *)
(* together from: the literal and the substituted parts of the f-strings,  *)
(* and "\n" where join puts it.                                            *)

\* sorted(S) of a set of ints, ascending
RECURSIVE SortedKeys(_)
SortedKeys(S) ==
  IF S = {} THEN <<>>
  ELSE LET m == CHOOSE x \in S : \A y \in S : x <= y
       IN <<m>> \o SortedKeys(S \ {m})

\* the sort key lambda l: (l.get("cours_nr") or 0)
LessonKey(l) == Or(Get(l, "cours_nr"), PyInt(0)).v

\* x put behind the lessons of a sorted list whose key is not greater
InsertByKey(sorted, x) ==
  LET n == Cardinality({i \in 1..Len(sorted) : LessonKey(sorted[i]) <= LessonKey(x)})
  IN SubSeq(sorted, 1, n) \o <<x>> \o SubSeq(sorted, n + 1, Len(sorted))

\* variant: the lessons left in the order given
SortLessons_unsorted(lessons) == lessons

\* sorted(lessons, key=...): ascending and stable
RECURSIVE SortLessons(_)
SortLessons(lessons) ==
  IF lessons = <<>> THEN <<>>
  ELSE InsertByKey(SortLessons(SubSeq(lessons, 1, Len(lessons) - 1)),
                   lessons[Len(lessons)])

\* variant: an empty office left empty
LessonLine_office_blank(lesson) ==
  <<"Lesson ", ToStr(Get(lesson, "cours_nr")),
    " | ", ToStr(Or(Get(lesson, "cours_name"), PyStr(""))),
    " | ", ToStr(Or(Get(lesson, "cours_type"), PyStr(""))),
    " | ", ToStr(Or(Get(lesson, "cours_office"), PyStr(""))),
    " | ", ToStr(Or(Get(lesson, "teacher_name"), PyStr("")))>>

\* f"Lesson {nr} | {name} | {ctype} | {office if office else "Unknown"} | {teacher}"
LessonLine(lesson) ==
  LET nr == Get(lesson, "cours_nr")
      name == Or(Get(lesson, "cours_name"), PyStr(""))
      ctype == Or(Get(lesson, "cours_type"), PyStr(""))
      office == Or(Get(lesson, "cours_office"), PyStr(""))
      teacher == Or(Get(lesson, "teacher_name"), PyStr(""))
  IN <<"Lesson ", ToStr(nr), " | ", ToStr(name), " | ", ToStr(ctype), " | ",
       (IF Truthy(office) THEN ToStr(office) ELSE "Unknown"), " | ",
       ToStr(teacher)>>

\* the lines of one day: a blank line, the weekday's line, the lessons' lines
DayLines(day_number, lessons) ==
  LET day_lessons == SortLessons(lessons)
  IN << <<>>, <<_weekday_name(day_number), ":">> >>
       \o [i \in 1..Len(day_lessons) |-> LessonLine(day_lessons[i])]

RECURSIVE AllDayLines(_, _)
AllDayLines(grouped, days) ==
  IF days = <<>> THEN <<>>
  ELSE DayLines(days[1], grouped[days[1]]) \o AllDayLines(grouped, Tail(days))

\* "\n".join(lines)
RECURSIVE Join(_)
Join(lines) ==
  IF lines = <<>> THEN <<>>
  ELSE IF Len(lines) = 1 THEN lines[1]
  ELSE lines[1] \o <<"\n">> \o Join(Tail(lines))

format_schedule(grouped) ==
  LET lines == << <<"Day of the week:">> >>
                 \o AllDayLines(grouped, SortedKeys(DOMAIN grouped))
  IN Join(lines)

-----------------------------------------------------------------------------
(* Orchestrator.                                                           *)

\* the key an entry is grouped under: item.get("day_number") or 0
DayNum(item) == Or(Get(item, "day_number"), PyInt(0)).v

\* variant: a day's list replaced by each entry instead of appended to
GroupEntries_overwrite(entries) ==
  [d \in {DayNum(entries[i]) : i \in 1..Len(entries)} |->
     LET last == CHOOSE i \in 1..Len(entries) :
                   /\ DayNum(entries[i]) = d
                   /\ \A j \in 1..Len(entries) : DayNum(entries[j]) = d => j <= i
     IN <<entries[last]>>]

\* the loop over the entries: each appended to the list of its day, the
\* lists in the order of the entries
GroupEntries(entries) ==
  [d \in {DayNum(entries[i]) : i \in 1..Len(entries)} |->
     SelectSeq(entries, LAMBDA item : DayNum(item) = d)]

\* the week handed to the fetch collaborator, or the exception raised
\* variant: a passed week taken before the date string
ResolveWeek_week_first(week, date_str) ==
  IF week /= None THEN Ok(week.v)
  ELSE IF Truthy(date_str)
  THEN LET target == _parse_date_str(date_str.v)
       IN IF target.status /= "ok" THEN target
          ELSE Ok(calc_university_week_from_date(target.value))
  ELSE Ok(1)

\* variant: a date string that does not parse ignored
ResolveWeek_lenient(week, date_str) ==
  LET target == IF Truthy(date_str) THEN _parse_date_str(date_str.v)
                ELSE Raise("ValueError")
  IN IF target.status = "ok"
     THEN Ok(calc_university_week_from_date(target.value))
     ELSE IF week = None THEN Ok(1) ELSE Ok(week.v)

ResolveWeek(week, date_str) ==
  IF Truthy(date_str)
  THEN LET target == _parse_date_str(date_str.v)
       IN IF target.status /= "ok" THEN target
          ELSE Ok(calc_university_week_from_date(target.value))
  ELSE IF week = None THEN Ok(1) ELSE Ok(week.v)

\* what follows the fetch: the payload's entries grouped and formatted
RenderPayload(raw) ==
  LET entries == Or(Get(raw, "week"), PyList(<<>>)).v
  IN format_schedule(GroupEntries(entries))

-----------------------------------------------------------------------------
(* Inputs.  A date string is the sequence of its characters; the other     *)
(* texts are strings.                                                      *)

TargetDates ==
  { FromOrdinal(ToOrdinal(WEEK_ZERO_START) + k) : k \in (0 - DaysBefore)..DaysAfter }
WeekArgs == (0 - 1)..MaxWeek
DayArgs == 0..8
LessonNumbers == (0 - 1)..MaxLessonNumber

DayFields ==
  { <<"0", "1">>, <<"1">>, <<" ", "1">>, <<"7">>, <<"0", "8">>, <<"2", "9">>,
    <<"3", "1">>, <<"3", "2">>, <<"0", "0">>, <<"0", "0", "1">>, <<>> }
MonthFields ==
  { <<"0", "9">>, <<"9">>, <<" ", "9">>, <<"0", "2">>, <<"2">>, <<"0", "8">>,
    <<"1", "2">>, <<"1", "3">>, <<"0", "0">>, <<>> }
YearFields ==
  { <<"2", "0", "2", "5">>, <<"2", "0", "2", "4">>, <<"2", "5">>,
    <<"0", "0", "0", "0">>, <<"2", "0", "2", "5", "5">>,
    <<"2", "0", "2", "5", " ">> }
Separators == {".", "-"}

DateStrings ==
  { d \o <<sep>> \o m \o <<sep>> \o y :
      d \in DayFields, m \in MonthFields, y \in YearFields, sep \in Separators }
  \cup { <<>> }

\* the date_str arguments of the orchestrator: none, the empty string,
\* dates of weeks 1 and 2, a date before the epoch, 31 September, a date
\* written with dashes
OrchDateStrs ==
  { None, PyStr(<<>>),
    PyStr(<<"0", "1", ".", "0", "9", ".", "2", "0", "2", "5">>),
    PyStr(<<"7", ".", "9", ".", "2", "0", "2", "5">>),
    PyStr(<<"0", "8", ".", "0", "9", ".", "2", "0", "2", "5">>),
    PyStr(<<"3", "1", ".", "0", "8", ".", "2", "0", "2", "5">>),
    PyStr(<<"3", "1", ".", "0", "9", ".", "2", "0", "2", "5">>),
    PyStr(<<"0", "8", "-", "0", "9", "-", "2", "0", "2", "5">>) }
OrchWeeks == { None, PyInt(1), PyInt(3) }
GroupNames == { "IT11Z", "IT12Z" }

\* the entries of a fetched payload: day_number missing, null, a weekday
\* or 8, with lesson ordinal 1 or 2
EntryDays == { "missing", "null", "1", "8" }
Entry(day, nr) ==
  LET rest == [cours_nr |-> PyInt(nr), cours_name |-> PyStr("Math")]
  IN CASE day = "missing" -> rest
       [] day = "null" -> ("day_number" :> None) @@ rest
       [] day = "1" -> ("day_number" :> PyInt(1)) @@ rest
       [] day = "8" -> ("day_number" :> PyInt(8)) @@ rest
Entries == { Entry(day, nr) : day \in EntryDays, nr \in 1..2 }

SeqsUpTo(S, n) == UNION { [1..k -> S] : k \in 0..n }

\* the payloads: "week" missing, null, or a list of entries
Payloads ==
  { <<>>, ("week" :> None) }
  \cup { ("week" :> PyList(es)) : es \in SeqsUpTo(Entries, MaxEntries) }

\* the lessons of a grouped schedule handed to format_schedule
Lessons ==
  { <<>>,
    [cours_nr |-> PyInt(2), cours_name |-> PyStr("Math"),
     cours_type |-> PyStr("Lecture"), cours_office |-> PyStr("101"),
     teacher_name |-> PyStr("Popa")],
    [cours_nr |-> PyInt(1), cours_name |-> PyStr("Physics"),
     cours_office |-> PyStr("")],
    [cours_nr |-> None, cours_name |-> None, cours_type |-> PyStr(""),
     cours_office |-> None, teacher_name |-> None],
    [cours_nr |-> PyInt(1), cours_name |-> PyStr("Math"),
     cours_type |-> PyStr("Lab"), cours_office |-> PyStr("101")],
    [cours_nr |-> PyInt(3), teacher_name |-> PyStr("Popa")] }
FormatDays == { 0, 2, 8 }

\* the grouped schedules: at most MaxLessons lessons over the days, and
\* days without a lesson
GroupedOf(pairs, empty) ==
  [d \in {pairs[i][1] : i \in 1..Len(pairs)} \cup empty |->
     LET mine == SelectSeq(pairs, LAMBDA p : p[1] = d)
     IN [i \in 1..Len(mine) |-> mine[i][2]]]
Groupeds ==
  { GroupedOf(pairs, empty) :
      pairs \in SeqsUpTo(FormatDays \X Lessons, MaxLessons),
      empty \in SUBSET FormatDays }

EventTexts == { "", "Math", "Lab", "Math:Lab", "Lab:Lab" }

Calls ==
  [fn : {"calc_university_week_from_date"}, target_date : TargetDates]
  \cup [fn : {"calc_date_from_week_and_day"}, week : WeekArgs, day_number : DayArgs]
  \cup [fn : {"_parse_date_str"}, date_str : DateStrings]
  \cup [fn : {"_lesson_time_range"}, lesson_number : LessonNumbers]
  \cup [fn : {"calc_lesson_datetime"}, week : WeekArgs, day_number : DayArgs,
        lesson_number : LessonNumbers]
  \cup [fn : {"generate_event_id"}, group_name : GroupNames, week : 1..2,
        day_number : 1..2, lesson_number : 1..2, cours_name : EventTexts,
        cours_type : EventTexts]
  \cup [fn : {"format_schedule"}, grouped : Groupeds]
  \cup [fn : {"parse_raw_schedule_json"}, group_name : GroupNames,
        week : OrchWeeks, date_str : OrchDateStrs, debug : BOOLEAN]

-----------------------------------------------------------------------------
(* The invocations.                                                        *)

Init ==
  /\ call \in Calls
  /\ ret = Pending
  /\ fetchLog = <<>>

Invoke(fn) == call.fn = fn /\ ret = Pending

CalcUniversityWeekFromDate ==
  /\ Invoke("calc_university_week_from_date")
  /\ ret' = Ok(calc_university_week_from_date(call.target_date))
  /\ UNCHANGED <<call, fetchLog>>

CalcDateFromWeekAndDay ==
  /\ Invoke("calc_date_from_week_and_day")
  /\ ret' = calc_date_from_week_and_day(call.week, call.day_number)
  /\ UNCHANGED <<call, fetchLog>>

ParseDateStr ==
  /\ Invoke("_parse_date_str")
  /\ ret' = _parse_date_str(call.date_str)
  /\ UNCHANGED <<call, fetchLog>>

LessonTimeRange ==
  /\ Invoke("_lesson_time_range")
  /\ ret' = Ok(_lesson_time_range(call.lesson_number))
  /\ UNCHANGED <<call, fetchLog>>

CalcLessonDatetime ==
  /\ Invoke("calc_lesson_datetime")
  /\ ret' = calc_lesson_datetime(call.week, call.day_number, call.lesson_number)
  /\ UNCHANGED <<call, fetchLog>>

GenerateEventId ==
  /\ Invoke("generate_event_id")
  /\ ret' = Ok(generate_event_id(call.group_name, call.week, call.day_number,
                                 call.lesson_number, call.cours_name,
                                 call.cours_type))
  /\ UNCHANGED <<call, fetchLog>>

FormatSchedule ==
  /\ Invoke("format_schedule")
  /\ ret' = Ok(format_schedule(call.grouped))
  /\ UNCHANGED <<call, fetchLog>>

\* parse_raw_schedule_json: the week resolved (or the parse failure raised
\* before anything is fetched), the collaborator called once, answering any
\* payload, and the payload's entries grouped and formatted
ParseRawScheduleJson ==
  /\ Invoke("parse_raw_schedule_json")
  /\ LET week == ResolveWeek(call.week, call.date_str)
     IN IF week.status /= "ok"
        THEN /\ ret' = week
             /\ UNCHANGED fetchLog
        ELSE \E raw \in Payloads :
               /\ fetchLog' = Append(fetchLog,
                                [group_name |-> call.group_name,
                                 university_week |-> week.value,
                                 debug |-> call.debug,
                                 reply |-> raw])
               /\ ret' = Ok(RenderPayload(raw))
  /\ UNCHANGED call

Next ==
  \/ CalcUniversityWeekFromDate
  \/ CalcDateFromWeekAndDay
  \/ ParseDateStr
  \/ LessonTimeRange
  \/ CalcLessonDatetime
  \/ GenerateEventId
  \/ FormatSchedule
  \/ ParseRawScheduleJson

Spec == Init /\ [][Next]_vars

-----------------------------------------------------------------------------
(* Reading a formatted text back: its lines, and what a line is.           *)

HasNewline(text) == \E i \in 1..Len(text) : text[i] = "\n"

RECURSIVE SplitLines(_)
SplitLines(text) ==
  IF ~HasNewline(text) THEN <<text>>
  ELSE LET i == CHOOSE k \in 1..Len(text) :
                  text[k] = "\n" /\ \A j \in 1..(k - 1) : text[j] /= "\n"
       IN <<SubSeq(text, 1, i - 1)>> \o SplitLines(SubSeq(text, i + 1, Len(text)))

IsDayLine(line) == Len(line) = 2 /\ line[2] = ":"
IsLessonLine(line) == Len(line) = 10 /\ line[1] = "Lesson "

\* the day code a weekday line names, among the codes -1 .. 9
CodeOf(line) == CHOOSE d \in (0 - 1)..9 : _weekday_name(d) = line[1]

\* the ordinal a lesson line shows; a lesson without one shows None
OrdinalOf(line) ==
  IF line[2] = "None" THEN 0 ELSE CHOOSE n \in 0..9 : IntToStr(n) = line[2]

DayLineIdx(lines) == { i \in 1..Len(lines) : IsDayLine(lines[i]) }
LessonLineIdx(lines) == { i \in 1..Len(lines) : IsLessonLine(lines[i]) }

\* the lesson lines under the weekday line of day code d
SectionIdx(lines, d) ==
  { i \in LessonLineIdx(lines) :
      \E h \in DayLineIdx(lines) :
        /\ h < i
        /\ CodeOf(lines[h]) = d
        /\ \A k \in DayLineIdx(lines) : k < i => k <= h }

Returned(fn) == call.fn = fn /\ ret /= Pending
ReturnedOk(fn) == call.fn = fn /\ ret.status = "ok"

-----------------------------------------------------------------------------
(* The claims.                                                             *)

\* C1: for week w >= 1 and day code 1..7, calc_date_from_week_and_day
\* returns a date whose calc_university_week_from_date is w again.
C1_RoundTrip ==
  (Returned("calc_date_from_week_and_day") /\ call.week >= 1
     /\ call.day_number \in 1..7)
    => /\ ret.status = "ok"
       /\ calc_university_week_from_date(ret.value) = call.week

C1_Witness ==
  /\ ReturnedOk("calc_date_from_week_and_day")
  /\ call.week = 3
  /\ call.day_number = 7
  /\ ret.value = Date(2025, 9, 21)

\* C2: the week of a date d is 1 before the epoch and otherwise the w with
\* 7(w-1) <= d - epoch < 7w; it is never below 1, it does not decrease as d
\* grows, and it is 1 at the epoch and six days later, 2 seven days later.
C2_WeekFromDate ==
  ReturnedOk("calc_university_week_from_date") =>
    LET delta == DateSubDays(call.target_date, WEEK_ZERO_START)
        w == ret.value
    IN /\ w >= 1
       /\ delta < 0 => w = 1
       /\ delta >= 0 => 7 * (w - 1) <= delta /\ delta < 7 * w
       /\ call.target_date = Date(2025, 9, 1) => w = 1
       /\ call.target_date = Date(2025, 9, 7) => w = 1
       /\ call.target_date = Date(2025, 9, 8) => w = 2
       /\ \A d \in TargetDates :
            DateSubDays(d, call.target_date) <= 0
              => calc_university_week_from_date(d) <= w

C2_Witness ==
  /\ ReturnedOk("calc_university_week_from_date")
  /\ call.target_date = Date(2025, 8, 24)
  /\ ret.value = 1

\* the week the fetch was called with, when it was called once with the
\* call's group name and debug flag
FetchedOnceWith(week) ==
  /\ Len(fetchLog) = 1
  /\ fetchLog[1].group_name = call.group_name
  /\ fetchLog[1].debug = call.debug
  /\ fetchLog[1].university_week = week

PassedWeek == IF call.week = None THEN 1 ELSE call.week.v

\* C3 (amended): a call of parse_raw_schedule_json that returns has invoked
\* the fetch collaborator exactly once, with the group name and debug flag
\* unchanged and the week of the parsed date when a non-empty date string
\* is given, whatever week was passed; with no date string or an empty one
\* the week is 1 when week is unset and the passed week otherwise.
C3_WeekResolved ==
  ReturnedOk("parse_raw_schedule_json") =>
    IF call.date_str /= None /\ call.date_str.v /= <<>>
    THEN /\ _parse_date_str(call.date_str.v).status = "ok"
         /\ FetchedOnceWith(calc_university_week_from_date(
                              _parse_date_str(call.date_str.v).value))
    ELSE FetchedOnceWith(PassedWeek)

C3_Witness ==
  /\ ReturnedOk("parse_raw_schedule_json")
  /\ call.date_str = PyStr(<<"0", "8", ".", "0", "9", ".", "2", "0", "2", "5">>)
  /\ call.week = PyInt(3)
  /\ FetchedOnceWith(2)

\* C3 as stated: whenever a date string is given, the empty one included,
\* the fetched week is the week of the parsed date.
C3_Original ==
  ReturnedOk("parse_raw_schedule_json") =>
    IF call.date_str /= None
    THEN /\ _parse_date_str(call.date_str.v).status = "ok"
         /\ FetchedOnceWith(calc_university_week_from_date(
                              _parse_date_str(call.date_str.v).value))
    ELSE FetchedOnceWith(PassedWeek)

\* C4 (amended): given a non-empty date string that does not parse,
\* parse_raw_schedule_json raises the parse failure, fetches nothing and
\* returns no text; an empty date string is not parsed at all: the call
\* goes on with the passed week, or week 1.
C4_ParseFailureSurfaced ==
  (Returned("parse_raw_schedule_json") /\ call.date_str /= None) =>
    IF call.date_str.v = <<>> THEN ret.status = "ok" /\ FetchedOnceWith(PassedWeek)
    ELSE _parse_date_str(call.date_str.v).status /= "ok"
           => ret = Raise("ValueError") /\ fetchLog = <<>>

C4_Witness ==
  /\ Returned("parse_raw_schedule_json")
  /\ call.date_str = PyStr(<<"0", "8", "-", "0", "9", "-", "2", "0", "2", "5">>)
  /\ call.week = PyInt(3)
  /\ ret = Raise("ValueError")
  /\ fetchLog = <<>>

\* C4 as stated: every date string given that does not parse, the empty one
\* included, ends the call in a parse failure with nothing fetched.
C4_Original ==
  (Returned("parse_raw_schedule_json") /\ call.date_str /= None
     /\ _parse_date_str(call.date_str.v).status /= "ok")
    => ret = Raise("ValueError") /\ fetchLog = <<>>

\* the ways a day, a month and a year may be written
Digits2(n) == <<DigitChar[(n \div 10) + 1], DigitChar[(n % 10) + 1]>>
DayTexts(d) ==
  { Digits2(d) }
  \cup (IF d < 10 THEN { <<DigitChar[d + 1]>>, <<" ", DigitChar[d + 1]>> } ELSE {})
MonthTexts(m) ==
  { Digits2(m) } \cup (IF m < 10 THEN { <<DigitChar[m + 1]>> } ELSE {})

\* s is day.month.year with a four-digit year and names a calendar date
Writes(s, dayText, monthText, d, m) ==
  LET n == Len(dayText) + Len(monthText) + 6
      yearText == SubSeq(s, n - 3, n)
  IN /\ Len(s) = n
     /\ s = dayText \o <<".">> \o monthText \o <<".">> \o yearText
     /\ \A i \in 1..4 : IsDigit(yearText[i])
     /\ ValidDate(FieldInt(yearText), m, d)

DateWritten(s, dayText, monthText, d, m) ==
  Date(FieldInt(SubSeq(s, Len(s) - 3, Len(s))), m, d)

\* C5 (amended): _parse_date_str returns the date of a string
\* day.month.year whose day is written with two digits, with one digit or
\* with a blank and one digit, whose month is written with two digits or
\* with one, and whose year has four digits, when that is a calendar date;
\* on every other string it fails with a ValueError.
C5_ParseDateStr ==
  Returned("_parse_date_str") =>
    IF \E d \in 1..31, m \in 1..12 :
         \E dt \in DayTexts(d), mt \in MonthTexts(m) :
           Writes(call.date_str, dt, mt, d, m)
    THEN \E d \in 1..31, m \in 1..12 :
           \E dt \in DayTexts(d), mt \in MonthTexts(m) :
             /\ Writes(call.date_str, dt, mt, d, m)
             /\ ret = Ok(DateWritten(call.date_str, dt, mt, d, m))
    ELSE ret = Raise("ValueError")

C5_Witness ==
  /\ Returned("_parse_date_str")
  /\ call.date_str = <<"1", ".", "9", ".", "2", "0", "2", "5">>
  /\ ret = Ok(Date(2025, 9, 1))

\* C5 as stated: only a string with a zero-padded two-digit day and month
\* and a four-digit year parses; every other string fails.
C5_Original ==
  Returned("_parse_date_str") =>
    IF \E d \in 1..31, m \in 1..12 :
         Writes(call.date_str, Digits2(d), Digits2(m), d, m)
    THEN ret.status = "ok"
    ELSE ret = Raise("ValueError")

\* the clock of a timestamp, as "HH:MM"
Clock(dt) == Format02d(dt.hour) \o ":" \o Format02d(dt.minute)
MinuteOfDay(dt) == dt.hour * 60 + dt.minute
DateOf(dt) == Date(dt.year, dt.month, dt.day)

LessonWindowOk ==
  LET n == call.lesson_number
      day == calc_date_from_week_and_day(call.week, call.day_number)
  IN /\ ret.status = "ok"
     /\ day.status = "ok"
     /\ DateOf(ret.value[1]) = day.value
     /\ DateOf(ret.value[2]) = day.value
     /\ MinuteOfDay(ret.value[1]) = 8 * 60 + (n - 1) * 105
     /\ MinuteOfDay(ret.value[2]) = MinuteOfDay(ret.value[1]) + 90
     /\ _lesson_time_range(n) = Clock(ret.value[1]) \o " - " \o Clock(ret.value[2])

\* C6 (amended): for every week, day code and lesson ordinal n in 1..9,
\* calc_lesson_datetime returns start and end on the date of
\* calc_date_from_week_and_day, the start at 08:00 + (n-1)*105 minutes, the
\* end 90 minutes later, the window _lesson_time_range(n) renders; for
\* n >= 10 the end is past midnight and calc_lesson_datetime raises a
\* ValueError.  _lesson_time_range renders "08:00 - 09:30" for n = 1 and
\* "09:45 - 11:15" for n = 2.
C6_LessonWindow ==
  /\ (Returned("calc_lesson_datetime") /\ call.lesson_number \in 1..9)
       => LessonWindowOk
  /\ (Returned("calc_lesson_datetime") /\ call.lesson_number >= 10)
       => ret = Raise("ValueError")
  /\ (Returned("_lesson_time_range") /\ call.lesson_number = 1)
       => ret = Ok("08:00 - 09:30")
  /\ (Returned("_lesson_time_range") /\ call.lesson_number = 2)
       => ret = Ok("09:45 - 11:15")

C6_Witness ==
  /\ ReturnedOk("calc_lesson_datetime")
  /\ call.week = 2
  /\ call.day_number = 3
  /\ call.lesson_number = 9
  /\ ret.value[1] = [year |-> 2025, month |-> 9, day |-> 10, hour |-> 22, minute |-> 0]
  /\ ret.value[2] = [year |-> 2025, month |-> 9, day |-> 10, hour |-> 23, minute |-> 30]

\* C6 as stated: for every positive lesson ordinal calc_lesson_datetime
\* returns the window on the lesson's date.
C6_Original ==
  (Returned("calc_lesson_datetime") /\ call.lesson_number >= 1)
    => LessonWindowOk

\* C7: in the text of format_schedule the weekday lines are those of the
\* day codes of the grouped schedule in ascending order, and the lesson
\* lines of a day follow each other in ascending order of the ordinal, a
\* lesson without an ordinal counting as 0.
C7_Ordered ==
  ReturnedOk("format_schedule") =>
    LET lines == SplitLines(ret.value)
    IN /\ \A i, j \in DayLineIdx(lines) :
            i < j => CodeOf(lines[i]) < CodeOf(lines[j])
       /\ { CodeOf(lines[i]) : i \in DayLineIdx(lines) } = DOMAIN call.grouped
       /\ \A i \in 1..(Len(lines) - 1) :
            (IsLessonLine(lines[i]) /\ IsLessonLine(lines[i + 1]))
              => OrdinalOf(lines[i]) <= OrdinalOf(lines[i + 1])

C7_Witness ==
  /\ ReturnedOk("format_schedule")
  /\ DOMAIN call.grouped = {2, 8}
  /\ Len(call.grouped[2]) = 2
  /\ LessonKey(call.grouped[2][1]) = 2
  /\ "cours_nr" \notin DOMAIN call.grouped[2][2]
  /\ LET lines == SplitLines(ret.value)
     IN /\ Len(lines) = 7
        /\ lines[3] = <<"Tuesday", ":">>
        /\ OrdinalOf(lines[4]) = 0
        /\ OrdinalOf(lines[5]) = 2
        /\ lines[7] = <<"Day 8", ":">>

\* what a lesson line has to show of a lesson
Slot(lesson, key) ==
  IF key \in DOMAIN lesson /\ lesson[key].t = "str" THEN lesson[key].v ELSE ""

Shows(line, lesson) ==
  /\ Len(line) = 10
  /\ line[1] = "Lesson "
  /\ ("cours_nr" \in DOMAIN lesson /\ lesson["cours_nr"].t = "int")
       => line[2] = IntToStr(lesson["cours_nr"].v)
  /\ line[3] = " | " /\ line[5] = " | " /\ line[7] = " | " /\ line[9] = " | "
  /\ line[4] = Slot(lesson, "cours_name")
  /\ line[6] = Slot(lesson, "cours_type")
  /\ line[8] = (IF Slot(lesson, "cours_office") = "" THEN "Unknown"
                ELSE Slot(lesson, "cours_office"))
  /\ line[10] = Slot(lesson, "teacher_name")

\* the label of a day code: the weekday of 1..7, "Day {code}" otherwise
Label(d) ==
  CASE d = 2 -> "Tuesday"
    [] d = 0 -> "Day 0"
    [] d = 8 -> "Day 8"
    [] d = 1 -> "Monday"

\* C8: format_schedule returns for every grouped schedule, whichever
\* fields its lessons lack; each lesson of a day is one line "Lesson
\* {ordinal} | {name} | {type} | {office} | {teacher}" under the day's
\* line, a missing (or null) name, type or teacher left empty and the
\* office "Unknown" exactly when it is missing, null or empty; a day code
\* outside 1..7 is labelled "Day {code}".
C8_Rendered ==
  Returned("format_schedule") =>
    /\ ret.status = "ok"
    /\ LET lines == SplitLines(ret.value)
       IN /\ Cardinality(LessonLineIdx(lines)) + 2 * Cardinality(DayLineIdx(lines)) + 1
               = Len(lines)
          /\ \A d \in DOMAIN call.grouped :
               LET section == SectionIdx(lines, d)
                   lessons == call.grouped[d]
               IN /\ Cardinality({ h \in DayLineIdx(lines) : lines[h][1] = Label(d) }) = 1
                  /\ Cardinality(section) = Len(lessons)
                  /\ \E f \in [section -> 1..Len(lessons)] :
                       /\ \A i, j \in section : i /= j => f[i] /= f[j]
                       /\ \A i \in section : Shows(lines[i], lessons[f[i]])

C8_Witness ==
  /\ ReturnedOk("format_schedule")
  /\ DOMAIN call.grouped = {8}
  /\ call.grouped[8] = << <<>>, [cours_nr |-> PyInt(1), cours_name |-> PyStr("Physics"),
                                 cours_office |-> PyStr("")] >>
  /\ ret.value = <<"Day of the week:", "\n", "\n", "Day 8", ":", "\n",
                   "Lesson ", "None", " | ", "", " | ", "", " | ", "Unknown", " | ", "", "\n",
                   "Lesson ", "1", " | ", "Physics", " | ", "", " | ", "Unknown", " | ", "">>

\* the entries of the payload the fetch answered, and an entry's day code
FetchedEntries ==
  LET raw == fetchLog[1].reply
  IN IF "week" \in DOMAIN raw /\ raw["week"].t = "list" THEN raw["week"].v ELSE <<>>

EntryDay(e) ==
  IF "day_number" \in DOMAIN e /\ e["day_number"].t = "int" THEN e["day_number"].v ELSE 0

\* C9: the text parse_raw_schedule_json returns has one lesson line for
\* every entry of the payload's "week" list, under the weekday line of the
\* entry's day_number (0 when that is missing or null), and one weekday
\* line for every day code that has an entry and for no other; a payload
\* without a "week" list gives the header line only.
C9_Partition ==
  ReturnedOk("parse_raw_schedule_json") =>
    LET entries == FetchedEntries
        lines == SplitLines(ret.value)
        days == { EntryDay(entries[i]) : i \in 1..Len(entries) }
    IN /\ lines[1] = <<"Day of the week:">>
       /\ Cardinality(LessonLineIdx(lines)) = Len(entries)
       /\ Cardinality(DayLineIdx(lines)) = Cardinality(days)
       /\ { CodeOf(lines[h]) : h \in DayLineIdx(lines) } = days
       /\ Len(lines) = 1 + 2 * Cardinality(days) + Len(entries)
       /\ \A d \in days :
            LET section == SectionIdx(lines, d)
                mine == { i \in 1..Len(entries) : EntryDay(entries[i]) = d }
            IN \E f \in [section -> mine] :
                 /\ \A i, j \in section : i /= j => f[i] /= f[j]
                 /\ \A k \in mine : \E i \in section : f[i] = k
                 /\ \A i \in section : Shows(lines[i], entries[f[i]])
       /\ entries = <<>> => ret.value = <<"Day of the week:">>

C9_Witness ==
  /\ ReturnedOk("parse_raw_schedule_json")
  /\ Len(FetchedEntries) = 2
  /\ "day_number" \notin DOMAIN FetchedEntries[1]
  /\ FetchedEntries[1]["cours_nr"] = PyInt(2)
  /\ "day_number" \in DOMAIN FetchedEntries[2]
  /\ FetchedEntries[2]["day_number"] = None
  /\ FetchedEntries[2]["cours_nr"] = PyInt(1)
  /\ ret.value = <<"Day of the week:", "\n", "\n", "Day 0", ":", "\n",
                   "Lesson ", "1", " | ", "Math", " | ", "", " | ", "Unknown", " | ", "", "\n",
                   "Lesson ", "2", " | ", "Math", " | ", "", " | ", "Unknown", " | ", "">>

C9_WitnessNoWeek ==
  /\ ReturnedOk("parse_raw_schedule_json")
  /\ fetchLog[1].reply = ("week" :> None)
  /\ ret.value = <<"Day of the week:">>

\* the tuples generate_event_id is called with
EventTuples ==
  GroupNames \X (1..2) \X (1..2) \X (1..2) \X EventTexts \X EventTexts

\* C10: the id generate_event_id returns for a tuple is the id of that
\* tuple alone: every tuple that differs in some field has another id.
C10_Original ==
  ReturnedOk("generate_event_id") =>
    \A t \in EventTuples :
      (generate_event_id(t[1], t[2], t[3], t[4], t[5], t[6]) = ret.value)
        <=> t = <<call.group_name, call.week, call.day_number,
                  call.lesson_number, call.cours_name, call.cours_type>>

=============================================================================
